---------------------------- MODULE Spec2Model ----------------------------
(***************************************************************************)
(* A model of the passport-cas strategy (lib/passport-cas.js):             *)
(*   CasStrategy.prototype.authenticate   (lines 117-253)                  *)
(*   CasStrategy.prototype.getProxyTicket (lines 296-319)                  *)
(*                                                                         *)
(* JavaScript strings are modelled as sequences of one-character strings,  *)
(* so that url.parse, url.format, encodeURIComponent and the two regular   *)
(* expressions of the retry redirect act on the characters as the code     *)
(* does.  An optional value (undefined or a string) is a sequence of zero  *)
(* or one strings.                                                         *)
(***************************************************************************)
EXTENDS Integers, Sequences, FiniteSets, TLC

(***************************************************************************)
(* Characters                                                              *)
(***************************************************************************)
Digit == {"0", "1", "2", "3", "4", "5", "6", "7", "8", "9"}

Letter == {"a", "b", "c", "e", "h", "i", "k", "l", "n", "o", "p", "r", "s",
           "t", "u", "v", "x", "y", "S", "T", "A", "F", "B", "D"}

\* \w of a JavaScript regular expression: [A-Za-z0-9_]
WordChar == Letter \cup Digit \cup {"_"}

\* the class [\w.-] of the ticket pattern (line 156)
TicketChar == WordChar \cup {".", "-"}

\* the characters encodeURIComponent and querystring.escape leave alone:
\* A-Z a-z 0-9 - _ . ! ~ * ' ( )
Unreserved == Letter \cup Digit \cup {"-", "_", ".", "!", "~", "*", "'", "(", ")"}

\* the percent-escapes of the characters of the model's alphabet that are
\* not unreserved, as <<character, first hex digit, second hex digit>>
PctTable == { <<":", "3", "A">>, <<"/", "2", "F">>, <<"?", "3", "F">>,
              <<"=", "3", "D">>, <<"&", "2", "6">>, <<"%", "2", "5">>,
              <<"+", "2", "B">>, <<" ", "2", "0">>, <<",", "2", "C">>,
              <<"S", "5", "3">> }

(***************************************************************************)
(* String helpers                                                          *)
(***************************************************************************)
\* s.substring(i-1, j): the characters i..j of s (empty when j < i)
Sub(s, i, j) == SubSeq(s, i, j)

\* s.substring(i-1): the characters of s from i on
From(s, i) == Sub(s, i, Len(s))

\* whether p occurs in s at position i
StartsAt(s, p, i) == /\ i >= 1
                     /\ i + Len(p) - 1 <= Len(s)
                     /\ \A n \in 1..Len(p) : s[i + n - 1] = p[n]

\* s.indexOf(c) + 1 for a character c: the first position of c, 0 if none
IndexOf(s, c) == IF \E i \in 1..Len(s) : s[i] = c
                 THEN CHOOSE i \in 1..Len(s) :
                        s[i] = c /\ \A j \in 1..(i - 1) : s[j] # c
                 ELSE 0

RECURSIVE Split(_, _)
\* s.split(c) for a character c
Split(s, c) == LET i == IndexOf(s, c)
               IN  IF i = 0 THEN <<s>>
                   ELSE <<Sub(s, 1, i - 1)>> \o Split(From(s, i + 1), c)

RECURSIVE Join(_, _)
\* parts.join(sep)
Join(parts, sep) == IF Len(parts) = 0 THEN <<>>
                    ELSE IF Len(parts) = 1 THEN parts[1]
                    ELSE parts[1] \o sep \o Join(Tail(parts), sep)

RECURSIVE NatToStr(_)
\* String(n) for a natural number n: its decimal digits
NatToStr(n) == LET d == CHOOSE c \in Digit :
                          c = <<"0", "1", "2", "3", "4", "5", "6", "7", "8", "9">>[(n % 10) + 1]
               IN  IF n < 10 THEN <<d>> ELSE NatToStr(n \div 10) \o <<d>>

DigitVal(c) == CHOOSE v \in 0..9 :
                 <<"0", "1", "2", "3", "4", "5", "6", "7", "8", "9">>[v + 1] = c

RECURSIVE DigitsToNat(_)
DigitsToNat(s) == IF Len(s) = 0 THEN 0
                  ELSE 10 * DigitsToNat(Sub(s, 1, Len(s) - 1)) + DigitVal(s[Len(s)])

(***************************************************************************)
(* Percent-encoding (encodeURIComponent, querystring.escape/unescape)      *)
(***************************************************************************)
\* encodeURIComponent(c) for one character
EscapeChar(c) == IF c \in Unreserved THEN <<c>>
                 ELSE IF \E e \in PctTable : e[1] = c
                      THEN LET e == CHOOSE e \in PctTable : e[1] = c
                           IN  <<"%", e[2], e[3]>>
                      ELSE <<c>>

RECURSIVE Escape(_)
\* encodeURIComponent(s); querystring.escape(s) agrees with it on the
\* model's alphabet
Escape(s) == IF Len(s) = 0 THEN <<>> ELSE EscapeChar(s[1]) \o Escape(Tail(s))

RECURSIVE Unescape(_)
\* decodeURIComponent(s): every %XX of the table becomes its character
Unescape(s) ==
  IF Len(s) = 0 THEN <<>>
  ELSE IF /\ s[1] = "%"
          /\ Len(s) >= 3
          /\ \E e \in PctTable : e[2] = s[2] /\ e[3] = s[3]
       THEN LET e == CHOOSE e \in PctTable : e[2] = s[2] /\ e[3] = s[3]
            IN  <<e[1]>> \o Unescape(From(s, 4))
       ELSE <<s[1]>> \o Unescape(Tail(s))

\* querystring.unescape after the '+' -> ' ' replacement querystring.parse
\* applies to keys and values
QsDecode(s) == Unescape([n \in 1..Len(s) |-> IF s[n] = "+" THEN " " ELSE s[n]])

(***************************************************************************)
(* Query objects.  A parsed query is the sequence of its entries in the    *)
(* object's insertion order; an entry is [k |-> key, v |-> values], where  *)
(* one value stands for a string and several for an array of strings.      *)
(***************************************************************************)
HasKey(q, k) == \E i \in 1..Len(q) : q[i].k = k

\* q[k]: <<>> is undefined, <<vs>> the values vs of the entry (one value
\* is a string, several are an array)
Lookup(q, k) == IF HasKey(q, k)
                THEN <<q[CHOOSE i \in 1..Len(q) : q[i].k = k].v>>
                ELSE <<>>

\* obj[k] = v of querystring.parse: a new key is appended, a repeated key
\* collects its values in an array
AddParam(q, k, v) ==
  IF HasKey(q, k)
  THEN [i \in 1..Len(q) |-> IF q[i].k = k
                            THEN [k |-> k, v |-> Append(q[i].v, v)]
                            ELSE q[i]]
  ELSE Append(q, [k |-> k, v |-> <<v>>])

RECURSIVE AddSegments(_, _)
AddSegments(q, segs) ==
  IF Len(segs) = 0 THEN q
  ELSE LET seg == segs[1]
           eq  == IndexOf(seg, "=")
           key == IF eq = 0 THEN seg ELSE Sub(seg, 1, eq - 1)
           val == IF eq = 0 THEN <<>> ELSE From(seg, eq + 1)
       IN  IF Len(seg) = 0 THEN AddSegments(q, Tail(segs))
           ELSE AddSegments(AddParam(q, QsDecode(key), QsDecode(val)), Tail(segs))

\* querystring.parse(qs)
ParseQuery(qs) == AddSegments(<<>>, Split(qs, "&"))

\* delete q[k]
DeleteKey(q, k) == SelectSeq(q, LAMBDA e : e.k # k)

RECURSIVE StringifyEntry(_, _)
StringifyEntry(k, vs) ==
  IF Len(vs) = 0 THEN <<>>
  ELSE <<Escape(k) \o <<"=">> \o Escape(vs[1])>> \o StringifyEntry(k, Tail(vs))

RECURSIVE StringifyParts(_)
StringifyParts(q) ==
  IF Len(q) = 0 THEN <<>>
  ELSE StringifyEntry(q[1].k, q[1].v) \o StringifyParts(Tail(q))

\* querystring.stringify(q)
Stringify(q) == Join(StringifyParts(q), <<"&">>)

(***************************************************************************)
(* Literals                                                                *)
(***************************************************************************)
kTicket == <<"t", "i", "c", "k", "e", "t">>

kCasRetry == <<"_", "c", "a", "s", "_", "r", "e", "t", "r", "y">>

kHttp == <<"h", "t", "t", "p">>

kHttps == <<"h", "t", "t", "p", "s">>

\* '/login?service=' (line 139)
kLoginService == <<"/", "l", "o", "g", "i", "n", "?", "s", "e", "r", "v", "i", "c", "e", "=">>

(***************************************************************************)
(* url.parse(u, true) and url.format, for the origin-form request URLs     *)
(* (path and query, no fragment) an HTTP server receives                   *)
(***************************************************************************)
\* url.parse(u).pathname
PathnameOf(u) == LET i == IndexOf(u, "?")
                 IN  IF i = 0 THEN u ELSE Sub(u, 1, i - 1)

\* the query string of u: what follows the first '?'
SearchOf(u) == LET i == IndexOf(u, "?")
               IN  IF i = 0 THEN <<>> ELSE From(u, i + 1)

\* url.parse(u, true).query
QueryOf(u) == ParseQuery(SearchOf(u))

RECURSIVE EscapePath(_)
\* pathname.replace(/[?#]/g, encodeURIComponent) of url.format
EscapePath(p) == IF Len(p) = 0 THEN <<>>
                 ELSE (IF p[1] = "?" THEN EscapeChar(p[1]) ELSE <<p[1]>>)
                        \o EscapePath(Tail(p))

\* url.format({protocol, host, pathname, query}) for the protocols http and
\* https and a host that is set: the protocol gets its ':', the host its
\* '//', the pathname a leading '/', and a query with entries its '?'
UrlFormat(protocol, host, pathname, query) ==
  protocol \o <<":", "/", "/">> \o host
    \o (IF Len(pathname) > 0 /\ pathname[1] # "/" THEN <<"/">> ELSE <<>>)
    \o EscapePath(pathname)
    \o (IF Len(query) = 0 THEN <<>> ELSE <<"?">> \o Stringify(query))

\* a || b || ... over optional strings: the first that is set and not ''
FirstTruthy(opts) ==
  IF \E i \in 1..Len(opts) : Len(opts[i]) = 1 /\ Len(opts[i][1]) > 0
  THEN LET i == CHOOSE i \in 1..Len(opts) :
                  /\ Len(opts[i]) = 1 /\ Len(opts[i][1]) > 0
                  /\ \A j \in 1..(i - 1) : ~(Len(opts[j]) = 1 /\ Len(opts[j][1]) > 0)
       IN  opts[i]
  ELSE <<>>

(***************************************************************************)
(* Requests.  A request is [url, hdr, parsed, passport]:                   *)
(*   url      req.originalUrl || req.url                                   *)
(*   hdr      the optional values the service URL reads: the headers       *)
(*            x-forwarded-proto (xfProto), x-proxied-protocol (xpProto),   *)
(*            x-forwarded-host (xfHost), host, x-proxied-request-uri       *)
(*            (xpUri), and req.protocol                                    *)
(*   parsed   whether the host has set req.query (its own parse of the     *)
(*            query string)                                                *)
(*   passport whether req._passport is set                                 *)
(***************************************************************************)
\* line 126: reqURL.query['ticket']
TicketOf(req) == Lookup(QueryOf(req.url), kTicket)

\* line 137: the truthiness of ticket; undefined and '' are falsy, a
\* non-empty string and an array are truthy
HasTicket(req) == LET t == TicketOf(req)
                  IN  Len(t) = 1 /\ (Len(t[1]) > 1 \/ Len(t[1][1]) > 0)

\* a variant of lines 129-135 without the delete of line 129, for the
\* sensitivity of C12 to it
ServiceURLWithTicket(req) ==
  UrlFormat(FirstTruthy(<<req.hdr.xfProto, req.hdr.xpProto, req.hdr.protocol, <<kHttp>>>>)[1],
            FirstTruthy(<<req.hdr.xfHost, req.hdr.host>>)[1],
            FirstTruthy(<<req.hdr.xpUri, <<PathnameOf(req.url)>>>>)[1],
            QueryOf(req.url))

\* lines 129-135: the service URL
ServiceURL(req) ==
  UrlFormat(FirstTruthy(<<req.hdr.xfProto, req.hdr.xpProto, req.hdr.protocol, <<kHttp>>>>)[1],
            FirstTruthy(<<req.hdr.xfHost, req.hdr.host>>)[1],
            FirstTruthy(<<req.hdr.xpUri, <<PathnameOf(req.url)>>>>)[1],
            DeleteKey(QueryOf(req.url), kTicket))

\* a variant of line 139 that leaves the service as it is, for the
\* sensitivity of C1 to the encoding
LoginURLUnescaped(base, req) == base \o kLoginService \o ServiceURL(req)

\* line 139: the CAS login URL
LoginURL(base, req) == base \o kLoginService \o Escape(ServiceURL(req))

\* lines 147-148: Math.round(date.getTime() / 60000), for a clock t that
\* counts half minutes (30000 ms)
Token(t) == (t + 1) \div 2

\* s.trim() for the space character
RECURSIVE Trim(_)
Trim(s) == IF Len(s) = 0 THEN s
           ELSE IF s[1] = " " THEN Trim(Tail(s))
           ELSE IF s[Len(s)] = " " THEN Trim(Sub(s, 1, Len(s) - 1))
           ELSE s

\* ToNumber(s) of a loose comparison, for the forms the model's requests
\* hold: blank is 0, [+]digits is the number, anything else is NaN (<<>>)
ToNumber(s) ==
  LET t == Trim(s)
      u == IF Len(t) > 0 /\ t[1] = "+" THEN Tail(t) ELSE t
  IN  IF Len(t) = 0 THEN <<0>>
      ELSE IF Len(u) > 0 /\ \A i \in 1..Len(u) : u[i] \in Digit
           THEN <<DigitsToNat(u)>>
           ELSE <<>>

\* req.query['_cas_retry'], for req.query set
RetryParam(req) == Lookup(QueryOf(req.url), kCasRetry)

\* line 149: req.query['_cas_retry'] != token.  undefined differs from
\* every number; a string is compared as a number; an array is compared
\* as its elements joined by ','
RetryDiffers(req, token) ==
  LET v == RetryParam(req)
  IN  IF Len(v) = 0 THEN TRUE
      ELSE LET n == ToNumber(Join(v[1], <<",">>))
           IN  Len(n) = 0 \/ n[1] # token

\* the end of the longest run of characters of class at position i of s
RECURSIVE RunEnd(_, _, _)
RunEnd(s, i, class) == IF i + 1 <= Len(s) /\ s[i + 1] \in class
                       THEN RunEnd(s, i + 1, class)
                       ELSE i

\* line 155: .replace(/_cas_retry=\d+&?/, ''): the first match is removed
RemoveRetry(u) ==
  LET pat == kCasRetry \o <<"=">>
      Match(i) == /\ StartsAt(u, pat, i)
                  /\ i + Len(pat) <= Len(u)
                  /\ u[i + Len(pat)] \in Digit
  IN  IF \E i \in 1..Len(u) : Match(i)
      THEN LET i == CHOOSE i \in 1..Len(u) :
                      Match(i) /\ \A j \in 1..(i - 1) : ~Match(j)
               d == RunEnd(u, i + Len(pat), Digit)
               e == IF d + 1 <= Len(u) /\ u[d + 1] = "&" THEN d + 1 ELSE d
           IN  Sub(u, 1, i - 1) \o From(u, e + 1)
      ELSE u

\* line 156: .replace(/([?&])ticket=[\w.-]+/, '$1_cas_retry=' + token)
ReplaceTicket(u, token) ==
  LET pat == kTicket \o <<"=">>
      Match(i) == /\ u[i] \in {"?", "&"}
                  /\ StartsAt(u, pat, i + 1)
                  /\ i + 1 + Len(pat) <= Len(u)
                  /\ u[i + 1 + Len(pat)] \in TicketChar
  IN  IF \E i \in 1..Len(u) : Match(i)
      THEN LET i == CHOOSE i \in 1..Len(u) :
                      Match(i) /\ \A j \in 1..(i - 1) : ~Match(j)
               e == RunEnd(u, i + 1 + Len(pat), TicketChar)
           IN  Sub(u, 1, i) \o kCasRetry \o <<"=">> \o NatToStr(token) \o From(u, e + 1)
      ELSE u

\* lines 154-156: the URL of the retry redirect
RetryURL(req, token) == ReplaceTicket(RemoveRetry(req.url), token)

(***************************************************************************)
(* JavaScript values of the profile.  An element of an array (or a field   *)
(* of profile.name) is [t, s, ty]: undefined, null, a string s, or the     *)
(* structured record {value: s, type: ty}.  A value is [t, s, ty, a]: the  *)
(* same, or an array with the elements a, or the name object with the      *)
(* fields a = <<familyName, givenName, middleName>>.  Objects (the         *)
(* attributes, the profile) are sequences of entries [k, v] in insertion   *)
(* order.                                                                  *)
(***************************************************************************)
EUndef == [t |-> "undefined", s |-> "", ty |-> ""]

ENull == [t |-> "null", s |-> "", ty |-> ""]

EStr(x) == [t |-> "string", s |-> x, ty |-> ""]

ERec(x, y) == [t |-> "object", s |-> x, ty |-> y]

Lift(e) == [t |-> e.t, s |-> e.s, ty |-> e.ty, a |-> <<>>]

Lower(v) == [t |-> v.t, s |-> v.s, ty |-> v.ty]

JUndef == Lift(EUndef)

JStr(x) == Lift(EStr(x))

JArr(es) == [t |-> "array", s |-> "", ty |-> "", a |-> es]

JName(f, g, m) == [t |-> "name", s |-> "", ty |-> "", a |-> <<f, g, m>>]

\* the truthiness of a value
Truthy(v) == /\ v.t \notin {"undefined", "null"}
             /\ (v.t = "string" => v.s # "")

\* Array.isArray(v)
IsArray(v) == v.t = "array"

\* v[0] of an array v
First(v) == IF Len(v.a) > 0 THEN Lift(v.a[1]) ELSE JUndef

ObjHas(o, k) == \E i \in 1..Len(o) : o[i].k = k

\* o[k]
ObjGet(o, k) == IF ObjHas(o, k)
                THEN o[CHOOSE i \in 1..Len(o) : o[i].k = k].v
                ELSE JUndef

\* o[k] = v
ObjSet(o, k, v) == IF ObjHas(o, k)
                   THEN [i \in 1..Len(o) |-> IF o[i].k = k THEN [k |-> k, v |-> v] ELSE o[i]]
                   ELSE Append(o, [k |-> k, v |-> v])

\* delete o[k]
ObjDelete(o, k) == SelectSeq(o, LAMBDA e : e.k # k)

\* self.casPropertyMap[key] || key, for a property map pm that holds ""
\* where the option sets no name
Mapped(pm, key) == IF pm[key] # "" THEN pm[key] ELSE key

(***************************************************************************)
(* Lines 179-242: the profile.  The loop state is [p, at]: the profile and *)
(* the attributes, from which the mapping deletes what it consumes.        *)
(***************************************************************************)
NameKeys == <<"familyName", "givenName", "middleName">>

\* lines 180-190
InitialProfile(username, extended) ==
  << [k |-> "provider", v |-> JStr("CAS")],
     [k |-> "id", v |-> IF Truthy(extended.id) THEN extended.id ELSE JStr(username)],
     [k |-> "displayName",
      v |-> IF Truthy(ObjGet(extended.attributes, "displayName"))
            THEN ObjGet(extended.attributes, "displayName")
            ELSE JStr(username)],
     [k |-> "name", v |-> JName(ENull, ENull, ENull)],
     [k |-> "emails", v |-> JArr(<<>>)] >>

\* lines 196-203, for the n-th field of profile.name
MapNameField(st, pm, n) ==
  LET mappedKey == Mapped(pm, NameKeys[n])
      value     == ObjGet(st.at, mappedKey)
      field     == IF IsArray(value) THEN Lower(First(value)) ELSE Lower(value)
      name      == ObjGet(st.p, "name")
  IN  [p  |-> ObjSet(st.p, "name", [name EXCEPT !.a[n] = field]),
       at |-> ObjDelete(st.at, mappedKey)]

\* lines 194-205
MapName(st, pm) == MapNameField(MapNameField(MapNameField(st, pm, 1), pm, 2), pm, 3)

\* lines 206-226
MapEmails(st, pm) ==
  LET mappedKey == Mapped(pm, "emails")
      emails    == ObjGet(st.at, mappedKey)
      wrapped   == [i \in 1..Len(emails.a) |-> ERec(emails.a[i].s, "default")]
      result    == IF IsArray(emails)
                   THEN IF First(emails).t \in {"object", "null"}
                        THEN emails
                        ELSE JArr(ObjGet(st.p, "emails").a \o wrapped)
                   ELSE JArr(<<Lower(emails)>>)
  IN  [p  |-> ObjSet(st.p, "emails", result),
       at |-> ObjDelete(st.at, mappedKey)]

\* a variant of lines 227-237 without the delete of line 236, for the
\* sensitivity of C14 to it
MapOtherKeep(st, pm, key) ==
  LET mappedKey == Mapped(pm, key)
      value     == ObjGet(st.at, mappedKey)
  IN  [p  |-> IF IsArray(value) THEN ObjSet(st.p, key, First(value))
              ELSE IF Truthy(value) THEN ObjSet(st.p, key, value)
              ELSE st.p,
       at |-> st.at]

\* lines 227-237
MapOther(st, pm, key) ==
  LET mappedKey == Mapped(pm, key)
      value     == ObjGet(st.at, mappedKey)
  IN  [p  |-> IF IsArray(value) THEN ObjSet(st.p, key, First(value))
              ELSE IF Truthy(value) THEN ObjSet(st.p, key, value)
              ELSE st.p,
       at |-> ObjDelete(st.at, mappedKey)]

RECURSIVE CopyRemaining(_, _)
\* lines 240-242
CopyRemaining(p, at) ==
  IF Len(at) = 0 THEN p
  ELSE CopyRemaining(ObjSet(p, at[1].k, at[1].v), Tail(at))

\* lines 179-242: [p |-> the profile handed to verify, at |-> the
\* attributes object of the validation result as the mapping leaves it]
BuildProfile(username, extended, pm) ==
  LET s0 == [p |-> InitialProfile(username, extended), at |-> extended.attributes]
      s1 == MapOther(s0, pm, "provider")
      s2 == MapOther(s1, pm, "id")
      s3 == MapOther(s2, pm, "displayName")
      s4 == MapName(s3, pm)
      s5 == MapEmails(s4, pm)
  IN  [p |-> CopyRemaining(s5.p, s5.at), at |-> s5.at]

(***************************************************************************)
(* Bounds and inputs                                                       *)
(***************************************************************************)
\* the last instant of the clock, in half minutes; the clock starts at 18
\* (9 minutes, token 9) and reaches 19 (9.5 minutes, token 10)
MaxNow == 19

\* how many times the application's verify callback may call its
\* completion handle for one request
MaxDone == 2

\* line 139, line 157: the status of both redirects
RedirectStatus == 307

\* options.casURL (line 89)
CasBaseUrl == <<"h", "t", "t", "p", "s", ":", "/", "/", "c", ".", "i", "o", "/", "c", "a", "s">>

PMKeys == {"provider", "id", "displayName", "familyName", "givenName", "middleName", "emails"}

\* options.propertyMap (line 91): none, and the one of the documentation
\* (lines 55-60)
NoPropertyMap == [k \in PMKeys |-> ""]

DocPropertyMap == [k \in PMKeys |->
                    CASE k = "id" -> "guid"
                      [] k = "givenName" -> "givenname"
                      [] k = "familyName" -> "surname"
                      [] k = "emails" -> "defaultmail"
                      [] OTHER -> ""]

\* the strategies (lines 86-92): pgtUrl says whether options.pgtURL is set
Configs ==
  { [pgtUrl |-> FALSE, sessionKey |-> "cas", passReq |-> FALSE, pm |-> NoPropertyMap],
    [pgtUrl |-> TRUE, sessionKey |-> "cas", passReq |-> TRUE, pm |-> DocPropertyMap],
    [pgtUrl |-> TRUE, sessionKey |-> "mycas", passReq |-> FALSE, pm |-> NoPropertyMap],
    [pgtUrl |-> FALSE, sessionKey |-> "mycas", passReq |-> TRUE, pm |-> DocPropertyMap] }

SessionKeys == {"cas", "mycas", "passport"}

\* an entry of the session: absent (set = FALSE), or an object that has a
\* PGTIOU property (has) of the value PGTIOU or has none
NoEntry == [set |-> FALSE, has |-> FALSE, PGTIOU |-> JUndef]

EmptyEntry == [set |-> TRUE, has |-> FALSE, PGTIOU |-> JUndef]

GrantEntry(v) == [set |-> TRUE, has |-> TRUE, PGTIOU |-> v]

HostH == <<"h", ".", "i", "o">>

HostX == <<"x", ".", "i", "o">>

\* a request of a host that sets req.protocol, with no proxy in front
PlainHeaders == [xfProto |-> <<>>, xpProto |-> <<>>, protocol |-> <<kHttp>>,
                 xfHost |-> <<>>, host |-> <<HostH>>, xpUri |-> <<>>]

\* behind a proxy that sets x-forwarded-proto and x-forwarded-host
ForwardedHeaders == [xfProto |-> <<kHttps>>, xpProto |-> <<>>, protocol |-> <<kHttp>>,
                     xfHost |-> <<HostX>>, host |-> <<HostH>>, xpUri |-> <<>>]

\* behind a proxy that sets x-proxied-protocol and x-proxied-request-uri,
\* on a host that sets no req.protocol
ProxiedHeaders == [xfProto |-> <<>>, xpProto |-> <<kHttps>>, protocol |-> <<>>,
                   xfHost |-> <<>>, host |-> <<HostH>>, xpUri |-> << <<"/", "x">> >>]

Path == <<"/", "p">>

pA == <<"a", "=", "1">>

pB == <<"b", "=", "2">>

pA3 == <<"a", "=", "3">>

pEnc == <<"a", "=", "b", "%", "2", "6", "c">>

pTicket1 == kTicket \o <<"=", "S", "T", "-", "1">>

pTicket2 == kTicket \o <<"=", "S", "T", "-", "2">>

pTicketEmpty == kTicket \o <<"=">>

pTicketEsc == kTicket \o <<"=", "%", "5", "3", "T", "-", "1">>

pRetry(cs) == kCasRetry \o <<"=">> \o cs

Url(params) == Path \o <<"?">> \o Join(params, <<"&">>)

\* the tokens of the clock's instants
Tokens == {Token(t) : t \in 18..MaxNow}

\* the request URLs that start a chain
InitialUrls ==
  { Path, Url(<<pA>>), Url(<<pEnc>>), Url(<<pA, pB, pA3>>), Url(<<pTicketEmpty>>),
    Url(<<pTicket1>>), Url(<<pA, pTicket1>>), Url(<<pTicket1, pA>>),
    Url(<<pEnc, pTicket1>>), Url(<<pTicketEsc>>), Url(<<pTicket1, pTicket2>>),
    Url(<<pRetry(<<"x">>), pTicket1>>) }
  \cup { Url(<<pRetry(NatToStr(k)), pTicket1>>) : k \in Tokens }
  \cup { Url(<<pTicket1, pRetry(NatToStr(k))>>) : k \in Tokens }

Request(u, h, parsed, passport) ==
  [url |-> u, hdr |-> h, parsed |-> parsed, passport |-> passport]

\* the requests that start a chain
InitialRequests ==
  { Request(u, PlainHeaders, TRUE, TRUE) : u \in InitialUrls }
  \cup { Request(u, ForwardedHeaders, TRUE, TRUE) : u \in {Url(<<pA>>), Url(<<pA, pTicket1>>)} }
  \cup { Request(u, ProxiedHeaders, TRUE, TRUE) : u \in {Path, Url(<<pTicket1>>)} }
  \cup { Request(u, PlainHeaders, FALSE, TRUE) : u \in {Url(<<pA>>), Url(<<pTicket1>>)} }
  \cup { Request(u, PlainHeaders, TRUE, FALSE) : u \in {Path, Url(<<pTicket1>>)} }

NoRequest == Request(<<>>, PlainHeaders, TRUE, TRUE)

\* the extended attributes CAS returns: none, and those of the
\* documentation's property map with one attribute beyond it
NoAttributes == <<>>

DocAttributes ==
  << [k |-> "guid", v |-> JStr("g1")],
     [k |-> "surname", v |-> JStr("Doe")],
     [k |-> "givenname", v |-> JArr(<<EStr("Jane")>>)],
     [k |-> "defaultmail", v |-> JArr(<<EStr("a@x.com"), EStr("b@x.com")>>)],
     [k |-> "dept", v |-> JStr("IT")] >>

\* attributes under the names of the profile's own fields: a full name, a
\* single mail address, a display name and a family name
PlainAttributes ==
  << [k |-> "name", v |-> JStr("Jane Doe")],
     [k |-> "emails", v |-> JStr("j@x.com")],
     [k |-> "displayName", v |-> JStr("JD")],
     [k |-> "familyName", v |-> JStr("Doe")] >>

\* attributes whose mail addresses are structured records already, under
\* the name of the documentation's property map and under 'emails'
RecordAttributes ==
  << [k |-> "defaultmail", v |-> JArr(<<ERec("a@x.com", "work")>>)],
     [k |-> "emails", v |-> JArr(<<ERec("b@x.com", "home")>>)] >>

Extended(pgtiou, hasAttrs, attrs) ==
  [id |-> JUndef, PGTIOU |-> pgtiou, hasAttributes |-> hasAttrs, attributes |-> attrs]

\* the results cas.validate hands to its callback (line 143): err is ""
\* for a success; extended.attributes may be undefined (hasAttributes)
ValidationError == [err |-> "ValidationError", username |-> "",
                    extended |-> Extended(JUndef, FALSE, NoAttributes)]

ValidationSuccesses ==
  { [err |-> "", username |-> "jane", extended |-> e] :
      e \in { Extended(JStr("PGTIOU-1"), TRUE, DocAttributes),
              Extended(JStr("PGTIOU-1"), TRUE, PlainAttributes),
              Extended(JStr("PGTIOU-1"), TRUE, RecordAttributes),
              Extended(JStr("PGTIOU-2"), TRUE, NoAttributes),
              Extended(JUndef, TRUE, NoAttributes),
              Extended(JStr(""), TRUE, DocAttributes),
              Extended(JStr("PGTIOU-1"), FALSE, NoAttributes) } }

\* what the application's verify callback passes to its completion handle:
\* err ("" for none), user ("" for false), info
DoneArgs == [err : {"", "DbError"}, user : {"", "jane-user"}, info : {"info"}]

\* what cas.getProxyTicket hands to its callback (line 315)
ProxyResults == { [err |-> "", ticket |-> "PT-1"], [err |-> "ProxyError", ticket |-> ""] }

\* the errors of getProxyTicket (lines 299, 302, 307)
NoSession == "Session is not found"

NotAuthenticated == "User is not authenticated with CAS"

MissingProxyGrant ==
  "PGTIOU token not found. Make sure pgtURL option is correct, and the CAS server allows proxies."

(***************************************************************************)
(* State                                                                   *)
(***************************************************************************)
VARIABLES
  cfg,           \* the strategy's options
  now,           \* the wall clock, in half minutes
  session,       \* req.session: [present, entries]
  req,           \* the request authenticate is handling
  pc,            \* "idle", "validating", "verifying" or "done"
  signals,       \* the framework signals of this request, in order
  thrown,        \* whether the validation callback threw
  validateCalls, \* the calls of cas.validate for this request
  verifyCalls,   \* the calls of the verify callback for this request
  doneArgs,      \* the calls of verify's completion handle for this request
  vres,          \* the validation result this request's callback received
  retried,       \* the tokens of the retry redirects of this chain
  dupRetry,      \* whether this chain issued two retry redirects on one token
  pt,            \* the getProxyTicket call: [pc, exchange, result, done]
  lastGrant,     \* the PGTIOU of the last successful validation on the session
  other          \* a second request in flight: the variables of its closure

vars == <<cfg, now, session, req, pc, signals, thrown, validateCalls, verifyCalls,
          doneArgs, vres, retried, dupRetry, pt, lastGrant, other>>

reqVars == <<req, pc, signals, thrown, validateCalls, verifyCalls, doneArgs, vres>>

\* the framework signals: this.redirect(url, status), this.fail(val),
\* this.error(val), this.success(val, info)
Redirect(u) == [type |-> "redirect", url |-> u, status |-> RedirectStatus, val |-> "", info |-> ""]

Fail(v) == [type |-> "fail", url |-> <<>>, status |-> 0, val |-> v, info |-> ""]

Error(v) == [type |-> "error", url |-> <<>>, status |-> 0, val |-> v, info |-> ""]

Success(u, i) == [type |-> "success", url |-> <<>>, status |-> 0, val |-> u, info |-> i]

\* no getProxyTicket call: exchange holds the calls of cas.getProxyTicket,
\* result what it handed to its callback, done the calls of done
PtIdle == [pc |-> "idle", exchange |-> <<>>, result |-> <<>>, done |-> <<>>]

\* the closure of a request (lines 117-143: req, self, service, ticket) and
\* what has come of it; the request the variables req, pc, ... describe
Closure ==
  [req |-> req, pc |-> pc, signals |-> signals, thrown |-> thrown,
   validateCalls |-> validateCalls, verifyCalls |-> verifyCalls,
   doneArgs |-> doneArgs, vres |-> vres, retried |-> retried, dupRetry |-> dupRetry]

\* no request
NoClosure ==
  [req |-> NoRequest, pc |-> "idle", signals |-> <<>>, thrown |-> FALSE,
   validateCalls |-> <<>>, verifyCalls |-> <<>>,
   doneArgs |-> <<>>, vres |-> <<>>, retried |-> {}, dupRetry |-> FALSE]

Init ==
  /\ other = NoClosure
  /\ cfg \in Configs
  /\ now = 18
  /\ session \in { [present |-> b,
                    entries |-> [k \in SessionKeys |->
                                   IF k = "passport" /\ b THEN EmptyEntry ELSE NoEntry]] :
                   b \in BOOLEAN }
  /\ req = NoRequest
  /\ pc = "idle"
  /\ signals = <<>>
  /\ thrown = FALSE
  /\ validateCalls = <<>>
  /\ verifyCalls = <<>>
  /\ doneArgs = <<>>
  /\ vres = <<>>
  /\ retried = {}
  /\ dupRetry = FALSE
  /\ pt = PtIdle
  /\ lastGrant = <<>>

(***************************************************************************)
(* authenticate, lines 117-143: what runs before the validation callback   *)
(***************************************************************************)
AuthenticateSync(r) ==
  /\ req' = r
  /\ thrown' = FALSE
  /\ verifyCalls' = <<>>
  /\ doneArgs' = <<>>
  /\ vres' = <<>>
  /\ IF ~r.passport
     THEN \* line 118
          /\ signals' = <<Error("passport.initialize() middleware not in use")>>
          /\ validateCalls' = <<>>
          /\ pc' = "done"
     ELSE IF ~HasTicket(r)
     THEN \* lines 137-140
          /\ signals' = <<Redirect(LoginURL(CasBaseUrl, r))>>
          /\ validateCalls' = <<>>
          /\ pc' = "done"
     ELSE \* line 143
          /\ signals' = <<>>
          /\ validateCalls' = <<[ticket |-> TicketOf(r)[1], service |-> ServiceURL(r)]>>
          /\ pc' = "validating"

\* a request arrives that no redirect of the strategy led to
Arrive(r) ==
  /\ pc = "idle"
  /\ pt.pc = "idle"
  /\ AuthenticateSync(r)
  /\ UNCHANGED <<cfg, other, now, session, retried, dupRetry, pt, lastGrant>>

\* the request, or the getProxyTicket call, is over or is followed no
\* further; the session stays
Reset ==
  /\ pc # "idle" \/ pt.pc # "idle"
  /\ req' = NoRequest
  /\ pc' = "idle"
  /\ signals' = <<>>
  /\ thrown' = FALSE
  /\ validateCalls' = <<>>
  /\ verifyCalls' = <<>>
  /\ doneArgs' = <<>>
  /\ vres' = <<>>
  /\ retried' = {}
  /\ dupRetry' = FALSE
  /\ pt' = PtIdle
  /\ UNCHANGED <<cfg, other, now, session, lastGrant>>

(***************************************************************************)
(* The validation callback, lines 143-251                                  *)
(***************************************************************************)
\* a variant of lines 149-161 without the else: a retry redirect is
\* followed by fail, for the sensitivity of C7 to the one-signal rule
RetryGuardBoth(r, token, err) ==
  IF RetryDiffers(r, token)
  THEN <<Redirect(RetryURL(r, token)), Fail(err)>>
  ELSE <<Fail(err)>>

\* lines 149-161: the signals of a failed validation, for req.query set
RetryGuard(r, token, err) ==
  IF RetryDiffers(r, token)
  THEN <<Redirect(RetryURL(r, token))>>
  ELSE <<Fail(err)>>

\* lines 146-162: cas.validate reports an error
ValidateFails ==
  /\ pc = "validating"
  /\ LET token == Token(now)
         out   == RetryGuard(req, token, ValidationError.err)
         retry == \E i \in 1..Len(out) : out[i].type = "redirect"
     IN  /\ vres' = <<[err |-> ValidationError.err, token |-> token,
                       retriedBefore |-> token \in retried,
                       username |-> ValidationError.username,
                       extended |-> ValidationError.extended,
                       attrsAfter |-> ValidationError.extended.attributes,
                       entryBefore |-> session.entries[cfg.sessionKey]]>>
         /\ IF ~req.parsed
            THEN \* line 149 reads a property of undefined
                 /\ thrown' = TRUE
                 /\ UNCHANGED <<signals, retried, dupRetry>>
            ELSE /\ thrown' = FALSE
                 /\ signals' = signals \o out
                 /\ retried' = IF retry THEN retried \cup {token} ELSE retried
                 /\ dupRetry' = (dupRetry \/ (retry /\ token \in retried))
  /\ pc' = "done"
  /\ UNCHANGED <<cfg, other, now, session, req, validateCalls, verifyCalls, doneArgs, pt, lastGrant>>

\* a variant of lines 173-177 without the test of casPgtUrl, for the
\* sensitivity of C8 to it
SessionWriteAlwaysGrant(c, sess, extended) ==
  [sess EXCEPT !.entries[c.sessionKey] = GrantEntry(extended.PGTIOU)]

\* a variant of lines 173-177 that keeps the record's PGTIOU where the
\* validation returns none, for the sensitivity of C10 to the replacement
SessionWriteKeepGrant(c, sess, extended) ==
  [sess EXCEPT !.entries[c.sessionKey] =
                  IF ~c.pgtUrl THEN EmptyEntry
                  ELSE IF Truthy(extended.PGTIOU) THEN GrantEntry(extended.PGTIOU)
                  ELSE GrantEntry(@.PGTIOU)]

\* lines 173-177: the session the validation leaves, for req.session set
SessionWrite(c, sess, extended) ==
  [sess EXCEPT !.entries[c.sessionKey] =
                  IF c.pgtUrl THEN GrantEntry(extended.PGTIOU) ELSE EmptyEntry]

\* lines 165-249: cas.validate reports a success
ValidateSucceeds(res) ==
  /\ pc = "validating"
  /\ vres' = <<[err |-> "", token |-> 0, retriedBefore |-> FALSE,
                username |-> res.username,
                extended |-> res.extended,
                attrsAfter |-> IF session.present /\ res.extended.hasAttributes
                               THEN BuildProfile(res.username, res.extended, cfg.pm).at
                               ELSE res.extended.attributes,
                entryBefore |-> session.entries[cfg.sessionKey]]>>
  /\ IF ~session.present
     THEN \* line 173 sets a property of undefined
          /\ thrown' = TRUE
          /\ pc' = "done"
          /\ UNCHANGED <<session, verifyCalls, lastGrant>>
     ELSE /\ session' = SessionWrite(cfg, session, res.extended)
          /\ lastGrant' = <<[pgtUrl |-> cfg.pgtUrl, PGTIOU |-> res.extended.PGTIOU]>>
          /\ IF ~res.extended.hasAttributes
             THEN \* line 183 reads a property of undefined
                  /\ thrown' = TRUE
                  /\ pc' = "done"
                  /\ UNCHANGED verifyCalls
             ELSE \* lines 179-248
                  /\ thrown' = FALSE
                  /\ pc' = "verifying"
                  /\ verifyCalls' =
                       Append(verifyCalls,
                              [withReq |-> cfg.passReq, username |-> res.username,
                               profile |-> BuildProfile(res.username, res.extended, cfg.pm).p])
  /\ UNCHANGED <<cfg, other, now, req, signals, validateCalls, doneArgs, retried, dupRetry, pt>>

\* a variant of lines 167-171 that looks at user before err, for the
\* sensitivity of C6 to the order of the tests
VerifiedSignalUserFirst(d) ==
  IF d.user = "" THEN Fail(d.info)
  ELSE IF d.err # "" THEN Error(d.err)
  ELSE Success(d.user, d.info)

\* lines 167-171: verified(err, user, info)
VerifiedSignal(d) ==
  IF d.err # "" THEN Error(d.err)
  ELSE IF d.user = "" THEN Fail(d.info)
  ELSE Success(d.user, d.info)

\* the verify callback calls its completion handle
Verified(d) ==
  /\ pc = "verifying"
  /\ Len(doneArgs) < MaxDone
  /\ doneArgs' = Append(doneArgs, d)
  /\ signals' = Append(signals, VerifiedSignal(d))
  /\ UNCHANGED <<cfg, other, now, session, req, pc, thrown, validateCalls, verifyCalls, vres,
                 retried, dupRetry, pt, lastGrant>>

(***************************************************************************)
(* The browser and the CAS server (lines 16-19): a redirect is followed    *)
(***************************************************************************)
IsLoginURL(u) == StartsAt(u, CasBaseUrl \o kLoginService, 1)

\* the URL CAS sends the browser back to: the service with a ticket added
\* to its query; the path is the one the request came by
CasReturnURL(r, login) ==
  LET service == Unescape(From(login, Len(CasBaseUrl \o kLoginService) + 1))
      q       == IndexOf(service, "?")
  IN  PathnameOf(r.url)
        \o (IF q = 0 THEN <<"?">> ELSE From(service, q) \o <<"&">>)
        \o pTicket2

\* the browser follows the retry redirect (line 157)
FollowRetry ==
  /\ pc = "done"
  /\ Len(signals) = 1
  /\ signals[1].type = "redirect"
  /\ ~IsLoginURL(signals[1].url)
  /\ AuthenticateSync([req EXCEPT !.url = signals[1].url])
  /\ UNCHANGED <<cfg, other, now, session, retried, dupRetry, pt, lastGrant>>

\* the browser follows the login redirect (line 139) and CAS sends it back
\* with a ticket
ReturnFromCas ==
  /\ pc = "done"
  /\ Len(signals) = 1
  /\ signals[1].type = "redirect"
  /\ IsLoginURL(signals[1].url)
  /\ AuthenticateSync([req EXCEPT !.url = CasReturnURL(req, signals[1].url)])
  /\ UNCHANGED <<cfg, other, now, session, retried, dupRetry, pt, lastGrant>>

\* half a minute passes
Tick ==
  /\ now < MaxNow
  /\ now' = now + 1
  /\ UNCHANGED <<cfg, other, session, req, pc, signals, thrown, validateCalls, verifyCalls,
                 doneArgs, vres, retried, dupRetry, pt, lastGrant>>

(***************************************************************************)
(* getProxyTicket, lines 296-319                                           *)
(***************************************************************************)
\* a variant of lines 297-309 without the test of pgtiou, for the
\* sensitivity of C9 to it
ProxyGrantUnchecked(c, sess) ==
  IF ~sess.present THEN [err |-> NoSession, pgtiou |-> JUndef]
  ELSE IF ~sess.entries[c.sessionKey].set THEN [err |-> NotAuthenticated, pgtiou |-> JUndef]
  ELSE [err |-> "", pgtiou |-> sess.entries[c.sessionKey].PGTIOU]

\* lines 297-309: err ("" for none) and pgtiou
ProxyGrant(c, sess) ==
  IF ~sess.present THEN [err |-> NoSession, pgtiou |-> JUndef]
  ELSE IF ~sess.entries[c.sessionKey].set THEN [err |-> NotAuthenticated, pgtiou |-> JUndef]
  ELSE LET pgtiou == sess.entries[c.sessionKey].PGTIOU
       IN  IF ~Truthy(pgtiou) THEN [err |-> MissingProxyGrant, pgtiou |-> pgtiou]
           ELSE [err |-> "", pgtiou |-> pgtiou]

\* lines 311-318
GetProxyTicket(target) ==
  /\ pc = "idle"
  /\ pt.pc = "idle"
  /\ LET g == ProxyGrant(cfg, session)
     IN  IF g.err # ""
         THEN pt' = [pc |-> "done", exchange |-> <<>>, result |-> <<>>,
                     done |-> <<[err |-> g.err, ticket |-> ""]>>]
         ELSE pt' = [pc |-> "exchanging",
                     exchange |-> <<[pgtiou |-> g.pgtiou, target |-> target]>>,
                     result |-> <<>>, done |-> <<>>]
  /\ UNCHANGED <<cfg, other, now, session, req, pc, signals, thrown, validateCalls, verifyCalls,
                 doneArgs, vres, retried, dupRetry, lastGrant>>

\* line 316: done(err, PT)
ProxyDone(res) == [err |-> res.err, ticket |-> res.ticket]

\* lines 315-317: the callback of cas.getProxyTicket
ProxyReturns(res) ==
  /\ pt.pc = "exchanging"
  /\ pt' = [pt EXCEPT !.pc = "done", !.result = <<res>>,
                      !.done = Append(pt.done, ProxyDone(res))]
  /\ UNCHANGED <<cfg, other, now, session, req, pc, signals, thrown, validateCalls, verifyCalls,
                 doneArgs, vres, retried, dupRetry, lastGrant>>

(***************************************************************************)
(* Two requests in flight.  Every call of authenticate and every callback  *)
(* runs to its end on the closure of its own request; the event loop then  *)
(* goes on with a callback of either request.  The options, the clock and  *)
(* the session (one browser session for both requests) are shared.         *)
(***************************************************************************)
\* a variant in which req is no variable of the closure but one shared by
\* the requests, for the sensitivity of C18 to the closures
SwitchSharedReq ==
  /\ pt.pc = "idle"
  /\ other # Closure
  /\ other' = Closure
  /\ pc' = other.pc
  /\ signals' = other.signals
  /\ thrown' = other.thrown
  /\ validateCalls' = other.validateCalls
  /\ verifyCalls' = other.verifyCalls
  /\ doneArgs' = other.doneArgs
  /\ vres' = other.vres
  /\ retried' = other.retried
  /\ dupRetry' = other.dupRetry
  /\ UNCHANGED <<cfg, now, session, pt, lastGrant, req>>

\* lines 143, 244-248: the next callback to run is one of the other
\* request; it finds the variables of its own closure
Switch ==
  /\ pt.pc = "idle"
  /\ other # Closure
  /\ other' = Closure
  /\ req' = other.req
  /\ pc' = other.pc
  /\ signals' = other.signals
  /\ thrown' = other.thrown
  /\ validateCalls' = other.validateCalls
  /\ verifyCalls' = other.verifyCalls
  /\ doneArgs' = other.doneArgs
  /\ vres' = other.vres
  /\ retried' = other.retried
  /\ dupRetry' = other.dupRetry
  /\ UNCHANGED <<cfg, now, session, pt, lastGrant>>

Next ==
  \/ \E r \in InitialRequests : Arrive(r)
  \/ Reset
  \/ ValidateFails
  \/ \E res \in ValidationSuccesses : ValidateSucceeds(res)
  \/ \E d \in DoneArgs : Verified(d)
  \/ FollowRetry
  \/ ReturnFromCas
  \/ Tick
  \/ GetProxyTicket("svc")
  \/ \E res \in ProxyResults : ProxyReturns(res)

Spec == Init /\ [][Next]_vars

\* the requests, validation results and verify results of two requests in
\* flight
ConcRequests ==
  { Request(Path, PlainHeaders, TRUE, TRUE),
    Request(Url(<<pA, pTicket1>>), ForwardedHeaders, TRUE, TRUE),
    Request(Url(<<pRetry(NatToStr(Token(18))), pTicket1>>), PlainHeaders, TRUE, TRUE),
    Request(Url(<<pTicket1>>), PlainHeaders, FALSE, TRUE) }

ConcSuccesses ==
  { res \in ValidationSuccesses :
      res.extended \in { Extended(JStr("PGTIOU-1"), TRUE, DocAttributes),
                         Extended(JStr("PGTIOU-2"), TRUE, NoAttributes) } }

ConcDoneArgs == { d \in DoneArgs : (d.err = "") # (d.user = "") }

\* two requests, each handled once, their callbacks in any order
ConcNext ==
  \/ \E r \in ConcRequests : Arrive(r)
  \/ ValidateFails
  \/ \E res \in ConcSuccesses : ValidateSucceeds(res)
  \/ \E d \in ConcDoneArgs : Verified(d)
  \/ Switch
  \/ Tick

ConcSpec == Init /\ [][ConcNext]_vars

(***************************************************************************)
(* Claims                                                                  *)
(***************************************************************************)
\* the request has been handled as far as the strategy's own code goes
Handled == pc = "done" \/ pc = "verifying"

\* the request carries no ticket query parameter
NoTicketParam(r) == ~HasKey(QueryOf(r.url), kTicket)

\* the URL by which the browser reached the request, up to its query:
\* where a proxy names its own protocol, host or path these hold
ExternalPath(r) ==
  CASE r.hdr = PlainHeaders -> kHttp \o <<":", "/", "/">> \o HostH \o PathnameOf(r.url)
    [] r.hdr = ForwardedHeaders -> kHttps \o <<":", "/", "/">> \o HostX \o PathnameOf(r.url)
    [] r.hdr = ProxiedHeaders -> kHttps \o <<":", "/", "/">> \o HostH \o <<"/", "x">>

\* what follows '/login?service=' in a login URL
ServiceParam(u) == From(u, Len(CasBaseUrl \o kLoginService) + 1)

ValidationFailed == Len(vres) = 1 /\ vres[1].err # ""

\* the validation callback of this request received a success
ValidationSucceeded == Len(vres) = 1 /\ vres[1].err = ""

\* the decimal string of the token of the failed validation
TokenStr == NatToStr(vres[1].token)

\* u is the request's URL with the ticket parameter removed and
\* _cas_retry=<token> added: the same path, the other parameters as they
\* were, no ticket, and _cas_retry once with the token
IsRetryOf(u, r, tok) ==
  /\ PathnameOf(u) = PathnameOf(r.url)
  /\ ~HasKey(QueryOf(u), kTicket)
  /\ Lookup(QueryOf(u), kCasRetry) = << <<tok>> >>
  /\ DeleteKey(QueryOf(u), kCasRetry)
       = DeleteKey(DeleteKey(QueryOf(r.url), kTicket), kCasRetry)

\* C2 as stated: after a failed validation, a request without _cas_retry
\* is redirected (307) to its URL with the ticket removed and
\* _cas_retry=<token> added, and fail is not called; a request whose
\* _cas_retry is the token of the current window is rejected with the
\* validation error, and not redirected.  (Stated for the requests whose
\* query the host has parsed.)
C2_RetryOnceThenFail ==
  (pc = "done" /\ ValidationFailed /\ req.parsed) =>
     /\ ~HasKey(QueryOf(req.url), kCasRetry) =>
          /\ Len(signals) = 1
          /\ signals[1].type = "redirect"
          /\ signals[1].status = 307
          /\ IsRetryOf(signals[1].url, req, TokenStr)
     /\ Lookup(QueryOf(req.url), kCasRetry) = << <<TokenStr>> >> =>
          signals = <<Fail(vres[1].err)>>

\* C3 as stated: a chain issues at most one retry redirect per window, and
\* a validation that fails in a window in which the chain has already been
\* redirected is reported by fail.  (Stated for the requests whose query
\* the host has parsed.)
C3_OneRetryPerWindow ==
  /\ ~dupRetry
  /\ (pc = "done" /\ ValidationFailed /\ vres[1].retriedBefore /\ req.parsed) =>
        signals = <<Fail(vres[1].err)>>

\* C4 as stated, in the form a finite run refutes: a chain that ends
\* handles no request twice, so a failed validation never sends the browser
\* back to the very URL it came by (the browser would come back with the
\* same request, and so on for ever, whatever the clock reads in between).
C4_ChainEndsInFail ==
  (pc = "done" /\ ValidationFailed /\ req.parsed) =>
     \A i \in 1..Len(signals) :
        signals[i].type = "redirect" => signals[i].url # req.url

\* the _cas_retry parameter of the request is one decimal number other
\* than tok: the token of another window
StaleRetry(r, tok) ==
  LET v == RetryParam(r)
  IN  /\ Len(v) = 1
      /\ Len(v[1]) = 1
      /\ Len(v[1][1]) > 0
      /\ \A i \in 1..Len(v[1][1]) : v[1][1][i] \in Digit
      /\ v[1][1] # tok

\* C11 as stated: on a failed validation a request whose _cas_retry is the
\* token of the current window is rejected with fail and not redirected; a
\* request whose _cas_retry is absent or is the token of another window is
\* redirected, to a URL that carries no ticket parameter and _cas_retry
\* exactly once, with the token of the current window.  (Stated for the
\* requests whose query the host has parsed.)
C11_RetryTokenDecides ==
  (pc = "done" /\ ValidationFailed /\ req.parsed) =>
     /\ RetryParam(req) = << <<TokenStr>> >> =>
          signals = <<Fail(vres[1].err)>>
     /\ (RetryParam(req) = <<>> \/ StaleRetry(req, TokenStr)) =>
          /\ Len(signals) = 1
          /\ signals[1].type = "redirect"
          /\ ~HasKey(QueryOf(signals[1].url), kTicket)
          /\ Lookup(QueryOf(signals[1].url), kCasRetry) = << <<TokenStr>> >>

(***************************************************************************)
(* The service URL                                                         *)
(***************************************************************************)
\* the request r with the parameter t added at the end of its query
WithParamLast(r, t) ==
  [r EXCEPT !.url = @ \o (IF IndexOf(@, "?") = 0 THEN <<"?">> ELSE <<"&">>) \o t]

\* the request r with the parameter t added at the front of its query
WithParamFirst(r, t) ==
  [r EXCEPT !.url = PathnameOf(@) \o <<"?">> \o t
                      \o (IF Len(SearchOf(@)) = 0 THEN <<>> ELSE <<"&">> \o SearchOf(@))]

\* the request r asking for the path it came by with the query of service
WithQueryOf(r, service) ==
  [r EXCEPT !.url = PathnameOf(@)
                      \o (IF IndexOf(service, "?") = 0 THEN <<>>
                          ELSE From(service, IndexOf(service, "?")))]

\* the service the login redirect of this request names
LoginService == Unescape(ServiceParam(signals[1].url))

\* the browser is sent to the CAS login and comes back with a ticket
RoundTrip ==
  /\ pc = "done"
  /\ Len(signals) = 1
  /\ signals[1].type = "redirect"
  /\ IsLoginURL(signals[1].url)
  /\ pc' = "validating"

\* C12: the service computed for a request without a ticket is the service
\* computed for the same request with a ticket added to its query (at the
\* end or at the front, same headers), and is reproduced from the
\* ticket-free URL it names; so, when the browser returns from the CAS
\* login with a ticket, the service handed to cas.validate is the service
\* the login redirect named.
C12_ServiceStable ==
  /\ [] ((pc = "done" /\ req.passport /\ NoTicketParam(req)) =>
           /\ \A t \in {pTicket1, pTicket2} :
                 /\ ServiceURL(WithParamLast(req, t)) = LoginService
                 /\ ServiceURL(WithParamFirst(req, t)) = LoginService
           /\ ServiceURL(req) = LoginService
           /\ ServiceURL(WithQueryOf(req, LoginService)) = LoginService)
  /\ [][RoundTrip =>
          /\ Len(validateCalls') = 1
          /\ validateCalls'[1].service = LoginService]_vars

\* C12's case: the request /p?a=1&b=2&a=3 was sent to the login, came back
\* as /p?a=1&a=3&b=2&ticket=ST-2, and its ticket is being validated
C12_Witness ==
  /\ pc = "validating"
  /\ req.url = Url(<<pA, pA3, pB, pTicket2>>)
  /\ validateCalls = <<[ticket |-> << <<"S", "T", "-", "2">> >>,
                       service |-> kHttp \o <<":", "/", "/">> \o HostH \o Url(<<pA, pA3, pB>>)]>>

(***************************************************************************)
(* The effects of one request                                              *)
(***************************************************************************)
\* the redirects among the signals of this request
Redirects == SelectSeq(signals, LAMBDA g : g.type = "redirect")

\* C5 as stated: the handling of a request issues at most one redirect and
\* calls the verify callback at most once, never both; the verify callback
\* is called exactly once if and only if the request carried a ticket and
\* the validation succeeded, and then no redirect is issued.
C5_RedirectOrVerifyOnce ==
  Handled =>
     /\ Len(Redirects) <= 1
     /\ Len(verifyCalls) <= 1
     /\ ~(Len(Redirects) >= 1 /\ Len(verifyCalls) >= 1)
     /\ (Len(verifyCalls) = 1) <=> (HasTicket(req) /\ ValidationSucceeded)
     /\ (HasTicket(req) /\ ValidationSucceeded) => Len(Redirects) = 0

\* C6: in the Authenticated state every call of the completion handle with
\* (err, user, info) produces one signal: error(err) if err is set, whatever
\* user is; otherwise fail(info) if user is falsy; otherwise
\* success(user, info).  Nothing else is signalled from that state.
C6_VerifiedOutcome ==
  pc = "verifying" =>
     /\ Len(signals) = Len(doneArgs)
     /\ \A i \in 1..Len(doneArgs) :
          LET d == doneArgs[i]
              g == signals[i]
          IN  /\ d.err # "" =>
                   g.type = "error" /\ g.val = d.err
              /\ (d.err = "" /\ d.user = "") =>
                   g.type = "fail" /\ g.val = d.info
              /\ (d.err = "" /\ d.user # "") =>
                   g.type = "success" /\ g.val = d.user /\ g.info = d.info

\* C6's case: the handle was called with an error and an identity, and
\* the request ended in error
C6_Witness ==
  /\ pc = "verifying"
  /\ Len(doneArgs) = 1
  /\ doneArgs[1].err = "DbError"
  /\ doneArgs[1].user = "jane-user"
  /\ signals = <<Error("DbError")>>

\* C7 (amended): a request produces at most one signal among redirect,
\* fail, error and success up to the verify callback, and then one signal
\* for every call of the completion handle: at most one signal in all for a
\* verify callback that calls its handle at most once, and n signals for
\* one that calls it n times.
C7_OneSignalPerCompletion ==
  /\ pc # "verifying" => Len(signals) <= 1
  /\ pc = "verifying" => Len(signals) = Len(doneArgs)
  /\ Len(doneArgs) <= 1 => Len(signals) <= 1

\* C7's case: the verify callback called its handle twice, with an identity
\* and then with an error, and the request was signalled twice
C7_Witness ==
  /\ pc = "verifying"
  /\ Len(doneArgs) = 2
  /\ signals = <<Success("jane-user", "info"), Error("DbError")>>

\* C7 as stated: a request produces at most one signal, even where the
\* verify callback calls its completion handle more than once
C7_AtMostOneSignal == Len(signals) <= 1

(***************************************************************************)
(* The session                                                             *)
(***************************************************************************)
\* a step in which the validation callback receives a success
SuccessStep == pc = "validating" /\ Len(vres') = 1 /\ vres'[1].err = ""

\* C8: the session changes only in a step in which the validation
\* succeeds; that step replaces session[sessionKey] by a record that holds
\* the PGTIOU the validation returned if and only if a pgtURL is
\* configured (an empty record otherwise) and leaves every other entry as
\* it was; the steps of getProxyTicket leave the session unchanged.
C8_SessionFrame ==
  [][ /\ session' # session => SuccessStep
      /\ (SuccessStep /\ session.present) =>
           /\ session'.present
           /\ \A k \in SessionKeys \ {cfg.sessionKey} :
                session'.entries[k] = session.entries[k]
           /\ session'.entries[cfg.sessionKey].set
           /\ session'.entries[cfg.sessionKey].has = cfg.pgtUrl
           /\ cfg.pgtUrl =>
                \E res \in ValidationSuccesses :
                   /\ lastGrant' = <<[pgtUrl |-> TRUE, PGTIOU |-> res.extended.PGTIOU]>>
                   /\ session'.entries[cfg.sessionKey].PGTIOU = res.extended.PGTIOU
           /\ ~cfg.pgtUrl => session'.entries[cfg.sessionKey] = EmptyEntry
      /\ pt' # pt => session' = session
    ]_vars

\* C8's case: under the key 'mycas', with a pgtURL, a validation that
\* returned PGTIOU-1 has been recorded, and the passport entry is as it was
C8_Witness ==
  /\ pc = "verifying"
  /\ cfg.sessionKey = "mycas"
  /\ cfg.pgtUrl
  /\ session.entries["mycas"] = GrantEntry(JStr("PGTIOU-1"))
  /\ session.entries["cas"] = NoEntry
  /\ session.entries["passport"] = EmptyEntry

(***************************************************************************)
(* getProxyTicket                                                          *)
(***************************************************************************)
\* done was called once, with err and no ticket, and the exchange not at all
FailedWith(err) ==
  /\ pt.pc = "done"
  /\ pt.done = <<[err |-> err, ticket |-> ""]>>
  /\ pt.exchange = <<>>
  /\ pt.result = <<>>

\* C9: getProxyTicket fails with NoSession for a request without session
\* storage, else with NotAuthenticated for a session without a record under
\* sessionKey, else with MissingProxyGrant for a record that holds no
\* PGTIOU; each time done is called once, with the error, and the
\* proxy-ticket exchange of the CAS client is not called.
C9_ProxyTicketErrors ==
  pt.pc # "idle" =>
     /\ ~session.present => FailedWith("Session is not found")
     /\ (session.present /\ ~session.entries[cfg.sessionKey].set) =>
          FailedWith("User is not authenticated with CAS")
     /\ (/\ session.present
         /\ session.entries[cfg.sessionKey].set
         /\ ~Truthy(session.entries[cfg.sessionKey].PGTIOU)) =>
          FailedWith(MissingProxyGrant)

\* C9's case: the session holds a record without a PGTIOU, and
\* getProxyTicket has failed with MissingProxyGrant
C9_Witness ==
  /\ pt.pc = "done"
  /\ session.present
  /\ session.entries[cfg.sessionKey] = EmptyEntry
  /\ pt.done = <<[err |-> MissingProxyGrant, ticket |-> ""]>>

\* C10: getProxyTicket calls the proxy-ticket exchange at most once, and
\* only with the PGTIOU of the last successful validation on the session,
\* which was made with a pgtURL; it passes the result of the exchange to
\* done as it is; where the last successful validation was made without a
\* pgtURL or returned no PGTIOU, getProxyTicket fails with
\* MissingProxyGrant and the exchange is not called.
C10_ProxyTicketUsesLastGrant ==
  pt.pc # "idle" =>
     /\ Len(pt.exchange) <= 1
     /\ Len(pt.exchange) = 1 =>
          /\ Len(lastGrant) = 1
          /\ lastGrant[1].pgtUrl
          /\ Truthy(lastGrant[1].PGTIOU)
          /\ pt.exchange[1] = [pgtiou |-> lastGrant[1].PGTIOU, target |-> "svc"]
     /\ (pt.pc = "done" /\ Len(pt.exchange) = 1) =>
          /\ Len(pt.result) = 1
          /\ pt.done = <<[err |-> pt.result[1].err, ticket |-> pt.result[1].ticket]>>
     /\ (Len(lastGrant) = 1 /\ (~lastGrant[1].pgtUrl \/ ~Truthy(lastGrant[1].PGTIOU))) =>
          FailedWith(MissingProxyGrant)

\* C10's case: the last of the validations returned PGTIOU-2, and the
\* exchange was called with it and its ticket handed on
C10_Witness ==
  /\ pt.pc = "done"
  /\ Len(lastGrant) = 1
  /\ lastGrant[1].PGTIOU = JStr("PGTIOU-2")
  /\ pt.exchange = <<[pgtiou |-> JStr("PGTIOU-2"), target |-> "svc"]>>
  /\ pt.done = <<[err |-> "", ticket |-> "PT-1"]>>

(***************************************************************************)
(* The profile                                                             *)
(***************************************************************************)
\* the verify callback of this request has been called, with a profile
\* built from the attributes of the validation
ProfileBuilt == ValidationSucceeded /\ Len(verifyCalls) = 1

\* the attribute names the mapping looks up, and so deletes
ConsumedNames == {Mapped(cfg.pm, f) : f \in PMKeys}

\* the fields the profile starts with
TopFields == {"provider", "id", "displayName", "name", "emails"}

\* C13 as stated: the profile handed to the verify callback has name as a
\* record of familyName, givenName and middleName and emails as a sequence,
\* whatever attributes the CAS server returns.
C13_ProfileShape ==
  \A i \in 1..Len(verifyCalls) :
     LET p == verifyCalls[i].profile
     IN  /\ ObjHas(p, "name")
         /\ ObjGet(p, "name").t = "name"
         /\ ObjHas(p, "emails")
         /\ IsArray(ObjGet(p, "emails"))

AllOfType(v, t) == \A i \in 1..Len(v.a) : v.a[i].t = t

\* C15 as stated: profile.emails comes from the attribute propertyMap.emails
\* names (default 'emails'): a sequence of scalars becomes the sequence of
\* the records {value: v, type: 'default'}, in the same order; a sequence
\* of structured records is kept as it is; a single scalar becomes a
\* sequence of one element.
C15_EmailsMapping ==
  ProfileBuilt =>
     LET emails == ObjGet(vres[1].extended.attributes, Mapped(cfg.pm, "emails"))
         got    == ObjGet(verifyCalls[1].profile, "emails")
     IN  /\ (IsArray(emails) /\ AllOfType(emails, "string")) =>
              got = JArr([i \in 1..Len(emails.a) |->
                            [t |-> "object", s |-> emails.a[i].s, ty |-> "default"]])
         /\ (IsArray(emails) /\ Len(emails.a) > 0 /\ AllOfType(emails, "object")) =>
              got = emails
         /\ emails.t = "string" =>
              got = JArr(<<[t |-> "string", s |-> emails.s, ty |-> ""]>>)

\* C16 as stated: each field f of profile.name comes from the attribute
\* propertyMap[f] names (default f): the first element of a sequence, a
\* scalar as it is, and null where the attribute is absent.
C16_NameMapping ==
  ProfileBuilt =>
     LET name == ObjGet(verifyCalls[1].profile, "name")
         at   == vres[1].extended.attributes
     IN  /\ name.t = "name"
         /\ \A n \in 1..3 :
               LET key   == Mapped(cfg.pm, NameKeys[n])
                   value == ObjGet(at, key)
               IN  /\ (ObjHas(at, key) /\ IsArray(value) /\ Len(value.a) > 0) =>
                        name.a[n] = value.a[1]
                   /\ (ObjHas(at, key) /\ value.t = "string") =>
                        name.a[n] = [t |-> "string", s |-> value.s, ty |-> ""]
                   /\ ~ObjHas(at, key) =>
                        name.a[n] = [t |-> "null", s |-> "", ty |-> ""]

\* C19 as stated: when authenticate has built the profile, the attributes
\* object of the validation result is as the validation client returned it.
C19_AttributesUntouched ==
  ProfileBuilt => vres[1].attrsAfter = vres[1].extended.attributes

(***************************************************************************)
(* Errors                                                                  *)
(***************************************************************************)
\* C17 as stated: for a request with a ticket and every outcome of the
\* validation (also with no session storage, no parsed query, or a success
\* without extended attributes) the validation callback throws nothing, and
\* the handling ends in a signal: redirect or fail after a failed
\* validation, and what the verify callback reports after a success.
C17_NeverThrows ==
  (Handled /\ HasTicket(req) /\ Len(vres) = 1) =>
     /\ ~thrown
     /\ ValidationFailed => Len(signals) = 1
     /\ ValidationSucceeded => Len(verifyCalls) = 1

\* the verify callback has reported an error or no identity: the request
\* ended in error or fail after a successful validation
RejectedByVerify ==
  /\ pc = "verifying"
  /\ Len(signals) >= 1
  /\ signals[1].type \in {"error", "fail"}

\* C20 as stated: a request whose validation succeeds and whose verify
\* callback reports an error or no identity leaves session[sessionKey] as it
\* found it: no record and no PGTIOU of that request, on which a later
\* getProxyTicket could obtain a proxy ticket.
C20_NoGrantWithoutSuccess ==
  RejectedByVerify => session.entries[cfg.sessionKey] = vres[1].entryBefore

(***************************************************************************)
(* Two requests in flight                                                  *)
(***************************************************************************)
\* the signals the request of closure q produces when handled alone, given
\* the validation result and the verify results it has received so far
AloneSignals(q) ==
  IF q.pc = "idle" THEN <<>>
  ELSE IF ~q.req.passport
       THEN <<Error("passport.initialize() middleware not in use")>>
  ELSE IF ~HasTicket(q.req) THEN <<Redirect(LoginURL(CasBaseUrl, q.req))>>
  ELSE IF Len(q.vres) = 0 THEN <<>>
  ELSE IF q.vres[1].err # ""
       THEN IF q.req.parsed
            THEN RetryGuard(q.req, q.vres[1].token, q.vres[1].err)
            ELSE <<>>
  ELSE [i \in 1..Len(q.doneArgs) |-> VerifiedSignal(q.doneArgs[i])]

\* the calls of the verify callback that request makes when handled alone
AloneVerifyCalls(q) ==
  IF /\ Len(q.vres) = 1
     /\ q.vres[1].err = ""
     /\ session.present
     /\ q.vres[1].extended.hasAttributes
  THEN <<[withReq |-> cfg.passReq, username |-> q.vres[1].username,
          profile |-> BuildProfile(q.vres[1].username, q.vres[1].extended, cfg.pm).p]>>
  ELSE <<>>

=============================================================================
